---- MODULE Spec2Model ----
(***************************************************************************)
(* The Hours-of-Service simulator TripViewSet._generate_eld_logs           *)
(* (src/route_planner/views.py, lines 140-307) as a state machine.         *)
(*                                                                         *)
(* Time is counted in whole seconds.  Every quantity the code holds as a   *)
(* number of hours (a float) is held here as that number of hours times    *)
(* SecondsPerHour, so that 0.25 h is 900 and route_data['duration'] / 3600 *)
(* is the route duration itself; datetime.now() is taken to the second.    *)
(* simulation_time is the offset of the code's datetime from midnight of   *)
(* current_day, and current_day is the number of days after the date of    *)
(* the call.                                                               *)
(***************************************************************************)
EXTENDS Integers, Sequences, FiniteSets, TLC

\* ---------------------------------------------------------------- constants
SecondsPerHour == 3600
SecondsPerMinute == 60
HoursPerDay == 24

MAX_DRIVING_HOURS == 11
MAX_ON_DUTY_HOURS == 14
MAX_WEEKLY_HOURS == 70

PRE_TRIP_MINUTES == 15
REST_BLOCK_HOURS == 8
MAX_ACTIVITIES_BEFORE_PICKUP == 4

Hours(h) == h * SecondsPerHour
Day == Hours(HoursPerDay)

\* ------------------------------------------------------------------- bounds
\* route_data['duration'] is drawn from {k * DurationStep : k \in -1..MaxDurationK}
\* and the whole multiples of MAX_DRIVING_HOURS up to two days of driving
DurationStep == 6300
MaxDurationK == 14
\* route_data['legs'][0]['duration'] is drawn from {k * LegStep : k \in 0..MaxLegK}
LegStep == 14400
MaxLegK == 3
\* trip.current_cycle_hours is 0 or MAX_WEEKLY_HOURS - k * CycleStep, k \in 0..MaxCycleK
CycleStep == 6
MaxCycleK == 2
\* daily_logs is stored up to MaxDays sheets (see EmitLogSheet)
MaxDays == 5

\* datetime.now() as seconds after midnight: midnight, a morning start with
\* seconds on the clock, starts on the hour and on the half hour in the
\* afternoon, and evening starts that bring the first day past midnight.
StartTimes ==
    { 0,
      Hours(8) + 30,
      Hours(13),
      Hours(15) + 30 * SecondsPerMinute,
      Hours(20),
      Hours(23) + 30 * SecondsPerMinute }

Durations ==
    { k * DurationStep : k \in (-1)..MaxDurationK }
        \cup { k * Hours(MAX_DRIVING_HOURS) : k \in 1..2 }
LegDurations == { k * LegStep : k \in 0..MaxLegK }
CycleHours ==
    {0} \cup { MAX_WEEKLY_HOURS - k * CycleStep : k \in 0..MaxCycleK }

\* ------------------------------------------------------------------ helpers
Min(a, b) == IF a <= b THEN a ELSE b

\* datetime.hour and datetime.minute of the datetime at offset t
HourOf(t) == (t % Day) \div SecondsPerHour
MinuteOf(t) == ((t % Day) % SecondsPerHour) \div SecondsPerMinute

\* datetime.strftime('%H:%M'): the time of day, seconds dropped
strftime(t) == <<HourOf(t), MinuteOf(t)>>

\* RoutingService.calculate_route: the total duration of a two-leg route
CalculateRouteDuration(first_leg, second_leg) ==
    first_leg + second_leg + SecondsPerHour

\* one entry of log_sheet['activities'].  begin is not a key of the code's
\* dict: it records the instant (seconds after midnight of the day of the
\* call) at which simulation_time stood when the entry was made.
Activity(status, start_time, end_time, duration, location, notes, begin) ==
    [ status |-> status, start_time |-> start_time, end_time |-> end_time,
      duration |-> duration, location |-> location, notes |-> notes,
      begin |-> begin ]

VARIABLES
    pc,                        \* position in _generate_eld_logs
    current_time,              \* datetime.now(), seconds after midnight
    current_cycle_used,        \* trip.current_cycle_hours
    route_duration,            \* route_data['duration'] (seconds)
    leg0_duration,             \* route_data['legs'][0]['duration'] (seconds)
    remaining_cycle,
    total_drive_time,
    daily_logs,
    current_day,
    day_drive_time,
    day_on_duty_time,
    day_off_duty_time,
    remaining_drive_time,
    remaining_on_duty_time,
    simulation_time,
    total_elapsed_drive_time,
    log_sheet,
    saved,                     \* LogSheet rows stored by the call
    returned                   \* the value returned, <<"none">> before return

\* The other components of the repository have their own state.  Each
\* specification below runs one component and leaves the others idle.

\* StopPlanner (src/route_planner/services/stop_planner.py)
VARIABLES
    plan_pc,                   \* position in StopPlanner.plan_stops
    total_distance,            \* self.total_distance (miles)
    total_duration,            \* self.total_duration (hours)
    fuel_stops,
    rest_stops,
    current_driving_time,
    merged_stops,              \* the list _merge_stops returned
    remerged_stops             \* _merge_stops(merged_stops, [])

\* the tables of eld_logs (src/eld_logs/models.py)
VARIABLES
    db_log_sheets,             \* LogSheet rows
    db_duty_status_changes,    \* DutyStatusChange rows
    property_read,             \* the last model property read, its value
    db_rest_stops,             \* RestStop rows
    db_trips                   \* Trip rows

\* LogGenerator (src/eld_logs/services/log_generator.py)
VARIABLES
    gen_pc,                    \* position in LogGenerator.generate_logs
    trip_created_at,           \* self.trip.created_at
    stops,                     \* the trip's RestStop rows
    segments,
    next_segment,              \* index of the segment the for loop is at
    current_date,
    log_sheets                 \* the list generate_logs is building

\* TripViewSet.plan_route (src/route_planner/views.py) and the requests of
\* DutyStatusChangeViewSet (src/eld_logs/views.py)
VARIABLES
    now,                       \* timezone.now() in _create_stop_objects
    planned_stops,             \* the list plan_stops returned
    plan_calls,                \* calls of plan_route for the trip so far
    stored_before,             \* the tables as they were when the call began
    response                   \* the status of the last response

\* RoutingService._make_request (src/route_planner/services/routing_service.py)
VARIABLES
    cache,                     \* django cache: cache_key -> request count
    clock_hour,                \* datetime.now().strftime('%Y%m%d%H')
    issued,                    \* HTTP requests issued so far, by hour
    caller_pc,                 \* position of each caller in _make_request
    cache_key,                 \* each caller's cache_key
    request_count,             \* each caller's request_count
    calls_made                 \* calls of _make_request begun, by caller

simulatorVars ==
    << pc, current_time, current_cycle_used, route_duration, leg0_duration,
       remaining_cycle, total_drive_time, daily_logs, current_day,
       day_drive_time, day_on_duty_time, day_off_duty_time,
       remaining_drive_time, remaining_on_duty_time, simulation_time,
       total_elapsed_drive_time, log_sheet, saved, returned >>

plannerVars ==
    << plan_pc, total_distance, total_duration, fuel_stops, rest_stops,
       current_driving_time, merged_stops, remerged_stops >>

dbVars ==
    << db_log_sheets, db_duty_status_changes, property_read, db_rest_stops,
       db_trips >>

generatorVars ==
    << gen_pc, trip_created_at, stops, segments, next_segment, current_date,
       log_sheets >>

routeVars == << now, planned_stops, plan_calls, stored_before, response >>

rateVars ==
    << cache, clock_hour, issued, caller_pc, cache_key, request_count,
       calls_made >>

vars ==
    << simulatorVars, plannerVars, dbVars, generatorVars, routeVars,
       rateVars >>

\* what a step of the simulator leaves alone
outsideSimulator ==
    << plannerVars, dbVars, generatorVars, routeVars, rateVars >>

\* no StopPlanner yet; the numbers are fractions n / d (see Q below)
PlannerIdle ==
    /\ plan_pc = "idle"
    /\ total_distance = [n |-> 0, d |-> 1]
    /\ total_duration = [n |-> 0, d |-> 1]
    /\ fuel_stops = <<>>
    /\ rest_stops = <<>>
    /\ current_driving_time = [n |-> 0, d |-> 1]
    /\ merged_stops = <<>>
    /\ remerged_stops = <<>>

DbEmpty ==
    /\ db_log_sheets = <<>>
    /\ db_duty_status_changes = <<>>
    /\ property_read = <<>>
    /\ db_rest_stops = <<>>
    /\ db_trips = <<>>

RouteIdle ==
    /\ now = 0
    /\ planned_stops = <<>>
    /\ plan_calls = 0
    /\ stored_before = <<>>
    /\ response = 0

RateIdle ==
    /\ cache = <<>>
    /\ clock_hour = 0
    /\ issued = <<>>
    /\ caller_pc = <<>>
    /\ cache_key = <<>>
    /\ request_count = <<>>
    /\ calls_made = <<>>

GeneratorIdle ==
    /\ gen_pc = "idle"
    /\ trip_created_at = 0
    /\ stops = <<>>
    /\ segments = <<>>
    /\ next_segment = 0
    /\ current_date = 0
    /\ log_sheets = <<>>

inputs ==
    << current_time, current_cycle_used, route_duration, leg0_duration,
       total_drive_time >>

\* the instant simulation_time stands at, from midnight of the day of the call
Instant == current_day * Day + simulation_time

NewSheet(date) ==
    [ date |-> date, activities |-> <<>>,
      total_drive |-> 0, total_on_duty |-> 0, total_off_duty |-> 0 ]

AddActivity(sheet, a) ==
    [sheet EXCEPT !.activities = Append(@, a)]

\* lines 142-170: the state on reaching the while loop
Init ==
    /\ pc = "while"
    /\ current_time \in StartTimes
    /\ current_cycle_used \in { Hours(h) : h \in CycleHours }
    /\ route_duration \in Durations
    /\ leg0_duration \in LegDurations
    /\ remaining_cycle = Hours(MAX_WEEKLY_HOURS) - current_cycle_used
    /\ total_drive_time = route_duration
    /\ daily_logs = <<>>
    /\ current_day = 0
    /\ day_drive_time = 0
    /\ day_on_duty_time = 0
    /\ day_off_duty_time = 0
    /\ remaining_drive_time = Hours(MAX_DRIVING_HOURS)
    /\ remaining_on_duty_time = Hours(MAX_ON_DUTY_HOURS)
    /\ simulation_time = current_time
    /\ total_elapsed_drive_time = 0
    /\ log_sheet = NewSheet(0)
    /\ saved = <<>>
    /\ returned = <<"none">>
    /\ PlannerIdle
    /\ DbEmpty
    /\ GeneratorIdle
    /\ RouteIdle
    /\ RateIdle

\* lines 173-181: the loop condition holds, a new log sheet is made
NewLogSheet ==
    /\ pc = "while"
    /\ total_elapsed_drive_time < total_drive_time
    /\ log_sheet' = NewSheet(current_day)
    /\ pc' = "rest"
    /\ UNCHANGED << outsideSimulator, inputs, remaining_cycle, daily_logs, current_day,
                    day_drive_time, day_on_duty_time, day_off_duty_time,
                    remaining_drive_time, remaining_on_duty_time,
                    simulation_time, total_elapsed_drive_time, saved,
                    returned >>

\* RestRecovery with the driving limit reset from the on-duty constant
RestRecoveryWrongDriveLimit ==
    /\ pc = "rest"
    /\ Len(daily_logs) > 0
    /\ log_sheet' = AddActivity(log_sheet,
            Activity("OFF", <<0, 0>>, <<REST_BLOCK_HOURS, 0>>,
                     Hours(REST_BLOCK_HOURS), "", "", Instant))
    /\ simulation_time' = simulation_time + Hours(REST_BLOCK_HOURS)
    /\ day_off_duty_time' = Hours(REST_BLOCK_HOURS)
    /\ remaining_drive_time' = Hours(MAX_ON_DUTY_HOURS)
    /\ remaining_on_duty_time' = Hours(MAX_ON_DUTY_HOURS)
    /\ pc' = "pre_trip"
    /\ UNCHANGED << outsideSimulator, inputs, remaining_cycle, daily_logs, current_day,
                    day_drive_time, day_on_duty_time,
                    total_elapsed_drive_time, saved, returned >>

\* RestRecovery without the reset of the daily limits
RestRecoveryNoReset ==
    /\ pc = "rest"
    /\ Len(daily_logs) > 0
    /\ log_sheet' = AddActivity(log_sheet,
            Activity("OFF", <<0, 0>>, <<REST_BLOCK_HOURS, 0>>,
                     Hours(REST_BLOCK_HOURS), "", "", Instant))
    /\ simulation_time' = simulation_time + Hours(REST_BLOCK_HOURS)
    /\ day_off_duty_time' = Hours(REST_BLOCK_HOURS)
    /\ pc' = "pre_trip"
    /\ UNCHANGED << outsideSimulator, inputs, remaining_cycle, daily_logs, current_day,
                    day_drive_time, day_on_duty_time, remaining_drive_time,
                    remaining_on_duty_time, total_elapsed_drive_time, saved,
                    returned >>

\* lines 184-199: not the first day: 8 hours off duty, daily limits reset
RestRecovery ==
    /\ pc = "rest"
    /\ Len(daily_logs) > 0
    /\ log_sheet' = AddActivity(log_sheet,
            Activity("OFF", <<0, 0>>, <<REST_BLOCK_HOURS, 0>>,
                     Hours(REST_BLOCK_HOURS), "", "", Instant))
    /\ simulation_time' = simulation_time + Hours(REST_BLOCK_HOURS)
    /\ day_off_duty_time' = Hours(REST_BLOCK_HOURS)
    /\ remaining_drive_time' = Hours(MAX_DRIVING_HOURS)
    /\ remaining_on_duty_time' = Hours(MAX_ON_DUTY_HOURS)
    /\ pc' = "pre_trip"
    /\ UNCHANGED << outsideSimulator, inputs, remaining_cycle, daily_logs, current_day,
                    day_drive_time, day_on_duty_time,
                    total_elapsed_drive_time, saved, returned >>

\* lines 200-201: the first day starts at the time of the call
FirstDayStart ==
    /\ pc = "rest"
    /\ Len(daily_logs) = 0
    /\ day_off_duty_time' = 0
    /\ pc' = "pre_trip"
    /\ UNCHANGED << outsideSimulator, inputs, remaining_cycle, daily_logs, current_day,
                    day_drive_time, day_on_duty_time, remaining_drive_time,
                    remaining_on_duty_time, simulation_time,
                    total_elapsed_drive_time, log_sheet, saved, returned >>

\* lines 204-213: 15 minutes on duty for the pre-trip inspection
PreTripInspection ==
    /\ pc = "pre_trip"
    /\ LET d == PRE_TRIP_MINUTES * SecondsPerMinute IN
        /\ log_sheet' = AddActivity(log_sheet,
                Activity("ON", strftime(simulation_time),
                         strftime(simulation_time + d), d, "", "", Instant))
        /\ simulation_time' = simulation_time + d
        /\ day_on_duty_time' = day_on_duty_time + d
        /\ remaining_on_duty_time' = remaining_on_duty_time - d
    /\ pc' = "drive"
    /\ UNCHANGED << outsideSimulator, inputs, remaining_cycle, daily_logs, current_day,
                    day_drive_time, day_off_duty_time, remaining_drive_time,
                    total_elapsed_drive_time, saved, returned >>

\* AvailableDriveTime with remaining_cycle left out of the min(...)
AvailableDriveTimeIgnoringCycle(drive_left, on_duty_left, cycle_left, trip_left) ==
    Min(Min(drive_left, on_duty_left), trip_left)

\* lines 216-221: min(...) of the four budgets
AvailableDriveTime(drive_left, on_duty_left, cycle_left, trip_left) ==
    Min(Min(drive_left, on_duty_left), Min(cycle_left, trip_left))

available_drive_time ==
    AvailableDriveTime(remaining_drive_time, remaining_on_duty_time,
                       remaining_cycle,
                       total_drive_time - total_elapsed_drive_time)

\* lines 223-240: a Driving activity of available_drive_time
Driving ==
    /\ pc = "drive"
    /\ available_drive_time > 0
    /\ LET d == available_drive_time IN
        /\ log_sheet' = AddActivity(log_sheet,
                Activity("D", strftime(simulation_time),
                         strftime(simulation_time + d), d, "", "", Instant))
        /\ simulation_time' = simulation_time + d
        /\ day_drive_time' = day_drive_time + d
        /\ day_on_duty_time' = day_on_duty_time + d
        /\ total_elapsed_drive_time' = total_elapsed_drive_time + d
        /\ remaining_drive_time' = remaining_drive_time - d
        /\ remaining_on_duty_time' = remaining_on_duty_time - d
        /\ remaining_cycle' = remaining_cycle - d
    /\ pc' = "pickup_dropoff"
    /\ UNCHANGED << outsideSimulator, inputs, daily_logs, current_day, day_off_duty_time,
                    saved, returned >>

\* line 223, condition false: no driving on this day
NoDriving ==
    /\ pc = "drive"
    /\ available_drive_time <= 0
    /\ pc' = "pickup_dropoff"
    /\ UNCHANGED << outsideSimulator, inputs, remaining_cycle, daily_logs, current_day,
                    day_drive_time, day_on_duty_time, day_off_duty_time,
                    remaining_drive_time, remaining_on_duty_time,
                    simulation_time, total_elapsed_drive_time, log_sheet,
                    saved, returned >>

\* line 243: the condition of the pickup branch
PickupDue ==
    /\ total_elapsed_drive_time >= leg0_duration
    /\ Len(log_sheet.activities) < MAX_ACTIVITIES_BEFORE_PICKUP

\* line 257: the condition of the dropoff branch
DropoffDue ==
    total_elapsed_drive_time >= total_drive_time

\* lines 243-256: one hour on duty at the pickup location
Pickup ==
    /\ pc = "pickup_dropoff"
    /\ PickupDue
    /\ log_sheet' = AddActivity(log_sheet,
            Activity("ON", strftime(simulation_time),
                     strftime(simulation_time + Hours(1)), Hours(1),
                     "pickup_location", "Pickup", Instant))
    /\ simulation_time' = simulation_time + Hours(1)
    /\ day_on_duty_time' = day_on_duty_time + Hours(1)
    /\ remaining_on_duty_time' = remaining_on_duty_time - Hours(1)
    /\ pc' = "off_duty"
    /\ UNCHANGED << outsideSimulator, inputs, remaining_cycle, daily_logs, current_day,
                    day_drive_time, day_off_duty_time, remaining_drive_time,
                    total_elapsed_drive_time, saved, returned >>

\* lines 257-269: one hour on duty at the dropoff location
Dropoff ==
    /\ pc = "pickup_dropoff"
    /\ ~PickupDue
    /\ DropoffDue
    /\ log_sheet' = AddActivity(log_sheet,
            Activity("ON", strftime(simulation_time),
                     strftime(simulation_time + Hours(1)), Hours(1),
                     "dropoff_location", "Dropoff", Instant))
    /\ simulation_time' = simulation_time + Hours(1)
    /\ day_on_duty_time' = day_on_duty_time + Hours(1)
    /\ pc' = "off_duty"
    /\ UNCHANGED << outsideSimulator, inputs, remaining_cycle, daily_logs, current_day,
                    day_drive_time, day_off_duty_time, remaining_drive_time,
                    remaining_on_duty_time, total_elapsed_drive_time, saved,
                    returned >>

\* lines 243 and 257, both conditions false
NoPickupDropoff ==
    /\ pc = "pickup_dropoff"
    /\ ~PickupDue
    /\ ~DropoffDue
    /\ pc' = "off_duty"
    /\ UNCHANGED << outsideSimulator, inputs, remaining_cycle, daily_logs, current_day,
                    day_drive_time, day_on_duty_time, day_off_duty_time,
                    remaining_drive_time, remaining_on_duty_time,
                    simulation_time, total_elapsed_drive_time, log_sheet,
                    saved, returned >>

\* line 273: whole hours left on the clock face (line 272 always holds)
OffDutyHours(t) ==
    HoursPerDay - HourOf(t) - (IF MinuteOf(t) > 0 THEN 1 ELSE 0)

\* lines 275-283: off duty from simulation_time to '24:00'
TrailingOffDuty ==
    /\ pc = "off_duty"
    /\ OffDutyHours(simulation_time) > 0
    /\ LET d == Hours(OffDutyHours(simulation_time)) IN
        /\ log_sheet' = AddActivity(log_sheet,
                Activity("OFF", strftime(simulation_time), <<HoursPerDay, 0>>,
                         d, "", "", Instant))
        /\ day_off_duty_time' = day_off_duty_time + d
    /\ pc' = "emit"
    /\ UNCHANGED << outsideSimulator, inputs, remaining_cycle, daily_logs, current_day,
                    day_drive_time, day_on_duty_time, remaining_drive_time,
                    remaining_on_duty_time, simulation_time,
                    total_elapsed_drive_time, saved, returned >>

\* line 275, condition false
NoTrailingOffDuty ==
    /\ pc = "off_duty"
    /\ OffDutyHours(simulation_time) <= 0
    /\ pc' = "emit"
    /\ UNCHANGED << outsideSimulator, inputs, remaining_cycle, daily_logs, current_day,
                    day_drive_time, day_on_duty_time, day_off_duty_time,
                    remaining_drive_time, remaining_on_duty_time,
                    simulation_time, total_elapsed_drive_time, log_sheet,
                    saved, returned >>

\* lines 286-297: the sheet gets its totals and joins daily_logs, the clock
\* moves to midnight of the next day.  The first MaxDays sheets are stored
\* and dated exactly; a later sheet is left out only when the day drove
\* nothing, and such a day leaves every other variable as the stored day
\* before it did.
EmitLogSheet ==
    /\ pc = "emit"
    /\ Len(daily_logs) < MaxDays \/ day_drive_time = 0
    /\ LET sheet == [log_sheet EXCEPT !.total_drive = day_drive_time,
                                      !.total_on_duty = day_on_duty_time,
                                      !.total_off_duty = day_off_duty_time]
       IN /\ log_sheet' = sheet
          /\ daily_logs' = IF Len(daily_logs) < MaxDays
                              THEN Append(daily_logs, sheet)
                              ELSE daily_logs
    /\ current_day' = IF current_day < MaxDays THEN current_day + 1
                                                ELSE current_day
    /\ simulation_time' = 0
    /\ day_drive_time' = 0
    /\ day_on_duty_time' = 0
    /\ pc' = "while"
    /\ UNCHANGED << outsideSimulator, inputs, remaining_cycle, day_off_duty_time,
                    remaining_drive_time, remaining_on_duty_time,
                    total_elapsed_drive_time, saved, returned >>

\* line 173, condition false: the loop is left
ExitLoop ==
    /\ pc = "while"
    /\ ~(total_elapsed_drive_time < total_drive_time)
    /\ pc' = "save"
    /\ UNCHANGED << outsideSimulator, inputs, remaining_cycle, daily_logs, current_day,
                    day_drive_time, day_on_duty_time, day_off_duty_time,
                    remaining_drive_time, remaining_on_duty_time,
                    simulation_time, total_elapsed_drive_time, log_sheet,
                    saved, returned >>

\* lines 300-305 with a sheet to save: LogSheet (src/eld_logs/models.py,
\* lines 7-18) has no field log_data, so the first LogSheet.objects.create
\* raises TypeError; nothing is stored and nothing is returned.
SaveLogSheetsRaises ==
    /\ pc = "save"
    /\ daily_logs # <<>>
    /\ pc' = "raised"
    /\ UNCHANGED << outsideSimulator, inputs, remaining_cycle, daily_logs, current_day,
                    day_drive_time, day_on_duty_time, day_off_duty_time,
                    remaining_drive_time, remaining_on_duty_time,
                    simulation_time, total_elapsed_drive_time, log_sheet,
                    saved, returned >>

\* lines 300-307 with no sheet to save: the empty list is returned
ReturnLogs ==
    /\ pc = "save"
    /\ daily_logs = <<>>
    /\ returned' = daily_logs
    /\ pc' = "returned"
    /\ UNCHANGED << outsideSimulator, inputs, remaining_cycle, daily_logs, current_day,
                    day_drive_time, day_on_duty_time, day_off_duty_time,
                    remaining_drive_time, remaining_on_duty_time,
                    simulation_time, total_elapsed_drive_time, log_sheet,
                    saved >>

Next ==
    \/ NewLogSheet
    \/ RestRecovery
    \/ FirstDayStart
    \/ PreTripInspection
    \/ Driving
    \/ NoDriving
    \/ Pickup
    \/ Dropoff
    \/ NoPickupDropoff
    \/ TrailingOffDuty
    \/ NoTrailingOffDuty
    \/ EmitLogSheet
    \/ ExitLoop
    \/ SaveLogSheetsRaises
    \/ ReturnLogs

Spec == Init /\ [][Next]_vars

\* the call runs to its end: a step that can be taken is taken
FairSpec == Spec /\ WF_vars(Next)

\* ------------------------------------------------------- what the logs say
AllStatuses == {"OFF", "ON", "D"}
OnDutyStatuses == {"D", "ON"}

Abs(x) == IF x < 0 THEN -x ELSE x
CeilDiv(a, b) == (a + b - 1) \div b

\* the sum of the 'duration' values of the activities whose status is in S
RECURSIVE DurationSum(_, _)
DurationSum(activities, S) ==
    IF activities = <<>> THEN 0
    ELSE (IF Head(activities).status \in S THEN Head(activities).duration
                                           ELSE 0)
         + DurationSum(Tail(activities), S)

RECURSIVE DrivingIn(_)
DrivingIn(logs) ==
    IF logs = <<>> THEN 0
    ELSE DurationSum(Head(logs).activities, {"D"}) + DrivingIn(Tail(logs))

\* positions at which log_sheet is the sheet of a day not yet in daily_logs
InDay == {"rest", "pre_trip", "drive", "pickup_dropoff", "off_duty", "emit"}

\* positions after the while loop (line 299 onwards)
LoopExited == pc \in {"save", "raised", "returned"}

\* Driving time logged so far, emitted days and the day in progress
LoggedDriving ==
    DrivingIn(daily_logs)
    + (IF pc \in InDay THEN DurationSum(log_sheet.activities, {"D"}) ELSE 0)

Noted(sheet, note) ==
    { j \in 1..Len(sheet.activities) : sheet.activities[j].notes = note }

\* the route is one RoutingService.calculate_route can return: its duration
\* is that of the first leg, a second leg of no negative duration, and the
\* hour calculate_route adds
RouteFromCalculateRoute ==
    route_duration - CalculateRouteDuration(leg0_duration, 0) >= 0

\* the instants an activity covers, as [from, to)
From(a) == a.begin
To(a) == a.begin + a.duration

\* ------------------------------------------------------------------ claims

\* C1: with positive total drive time, the durations of the activities of
\* every emitted daily log sum to 24 hours, within one minute.
C1_DaySumsTo24h ==
    total_drive_time > 0 =>
        \A i \in 1..Len(daily_logs) :
            Abs(DurationSum(daily_logs[i].activities, AllStatuses) - Day)
                <= SecondsPerMinute

\* each activity of a sheet starts at the time of day the one before it ends
Contiguous(sheet) ==
    \A j \in 1..(Len(sheet.activities) - 1) :
        /\ sheet.activities[j + 1].start_time = sheet.activities[j].end_time
        /\ From(sheet.activities[j + 1]) = To(sheet.activities[j])

\* no activity of a sheet runs past the midnight that ends the sheet's date
WithinItsDate(sheet) ==
    \A j \in 1..Len(sheet.activities) :
        To(sheet.activities[j]) <= (sheet.date + 1) * Day

\* no instant is covered by activities of two different sheets
NoDoubleCoverage ==
    \A i, k \in 1..Len(daily_logs) :
        i < k =>
            \A j \in 1..Len(daily_logs[i].activities) :
                \A l \in 1..Len(daily_logs[k].activities) :
                    LET a == daily_logs[i].activities[j]
                        b == daily_logs[k].activities[l]
                    IN  To(a) <= From(b) \/ To(b) <= From(a)

\* C2: in every emitted daily log the activities are contiguous, none runs
\* past midnight of the log's date, and no instant is covered by the
\* activities of two different logs.
C2_ContiguousNoOverlap ==
    /\ \A i \in 1..Len(daily_logs) :
            Contiguous(daily_logs[i]) /\ WithinItsDate(daily_logs[i])
    /\ NoDoubleCoverage

\* the caps of a day hold of a sheet, by its activities and by its totals
WithinDailyCaps(sheet) ==
    /\ DurationSum(sheet.activities, {"D"}) <= Hours(MAX_DRIVING_HOURS)
    /\ DurationSum(sheet.activities, OnDutyStatuses)
            <= Hours(MAX_ON_DUTY_HOURS)
    /\ sheet.total_drive <= Hours(MAX_DRIVING_HOURS)
    /\ sheet.total_on_duty <= Hours(MAX_ON_DUTY_HOURS)

\* C3: on every emitted day other than the first, Driving is at most
\* MAX_DRIVING_HOURS and Driving plus On-Duty is at most MAX_ON_DUTY_HOURS.
C3_DailyCaps ==
    \A i \in 2..Len(daily_logs) : WithinDailyCaps(daily_logs[i])

\* a second day that drives the full MAX_DRIVING_HOURS and has a pickup
C3_Witness ==
    /\ Len(daily_logs) >= 2
    /\ daily_logs[2].total_drive = Hours(MAX_DRIVING_HOURS)
    /\ Noted(daily_logs[2], "Pickup") # {}

\* C4: at every point the Driving time logged so far is at most
\* MAX_WEEKLY_HOURS - cycle_hours_used; the cycle budget never grows, and
\* what it loses in a step is the Driving time that step logs.
C4_CycleBudget ==
    /\ [](LoggedDriving <= Hours(MAX_WEEKLY_HOURS) - current_cycle_used)
    /\ [][ /\ remaining_cycle' <= remaining_cycle
           /\ remaining_cycle - remaining_cycle'
                = LoggedDriving' - LoggedDriving ]_vars

\* the cycle budget is used up by driving before the trip is driven
C4_Witness ==
    /\ pc = "pickup_dropoff"
    /\ current_cycle_used < Hours(MAX_WEEKLY_HOURS)
    /\ LoggedDriving = Hours(MAX_WEEKLY_HOURS) - current_cycle_used
    /\ remaining_cycle = 0
    /\ total_elapsed_drive_time < total_drive_time

\* C5: once the loop has been left, the Driving durations of all emitted
\* days sum to the requested total drive time, within one minute.
C5_DrivingSumsToTotal ==
    LoopExited =>
        Abs(DrivingIn(daily_logs) - total_drive_time) <= SecondsPerMinute

\* C6: with positive total drive time (and cycle hours used between 0 and
\* MAX_WEEKLY_HOURS, as in every run here) the loop is eventually left.
C6_LoopFinishes ==
    (total_drive_time > 0) ~> LoopExited

\* the trip fits the cycle hours that are left
FitsCycle ==
    /\ total_drive_time > 0
    /\ total_drive_time <= Hours(MAX_WEEKLY_HOURS) - current_cycle_used

\* C7: when the trip fits the cycle, the i-th emitted day logs 11 hours of
\* Driving, or what is left of the trip after i - 1 such days if that is
\* less, and on leaving the loop ceil(T / 11) days have been emitted.
C7_DayCount ==
    FitsCycle =>
        /\ \A i \in 1..Len(daily_logs) :
                DurationSum(daily_logs[i].activities, {"D"})
                    = Min(Hours(MAX_DRIVING_HOURS),
                          total_drive_time
                            - (i - 1) * Hours(MAX_DRIVING_HOURS))
        /\ LoopExited =>
                Len(daily_logs)
                    = CeilDiv(total_drive_time, Hours(MAX_DRIVING_HOURS))

\* 14 hours with no cycle hours used: two logs, of 11 and 3 hours
C7_Witness ==
    /\ LoopExited
    /\ total_drive_time = Hours(14)
    /\ current_cycle_used = 0
    /\ Len(daily_logs) = 2
    /\ DurationSum(daily_logs[1].activities, {"D"}) = Hours(11)
    /\ DurationSum(daily_logs[2].activities, {"D"}) = Hours(3)

\* C8: once the loop has been left, the last emitted day (the day on which
\* driving reached the total) has a one-hour On-Duty activity noted
\* 'Dropoff' at the dropoff location.
C8_DropoffOnLastDay ==
    (LoopExited /\ total_drive_time > 0 /\ RouteFromCalculateRoute) =>
        \E j \in Noted(daily_logs[Len(daily_logs)], "Dropoff") :
            LET a == daily_logs[Len(daily_logs)].activities[j]
            IN  /\ a.status = "ON"
                /\ a.duration = Hours(1)
                /\ a.location = "dropoff_location"

\* the number of 'Pickup' activities in the sheets
RECURSIVE PickupsIn(_)
PickupsIn(logs) ==
    IF logs = <<>> THEN 0
    ELSE Cardinality(Noted(Head(logs), "Pickup")) + PickupsIn(Tail(logs))

\* the first emitted day by the end of which driving has reached the first
\* leg's duration
PickupDay ==
    CHOOSE i \in 1..Len(daily_logs) :
        /\ DrivingIn(SubSeq(daily_logs, 1, i)) >= leg0_duration
        /\ \A k \in 1..(i - 1) :
                DrivingIn(SubSeq(daily_logs, 1, k)) < leg0_duration

\* C9: over a whole run 'Pickup' is appended exactly once, on the day on
\* which cumulative driving first reaches the first leg's duration, and on
\* no later day.
C9_PickupOnce ==
    (total_drive_time > 0 /\ RouteFromCalculateRoute) =>
        /\ PickupsIn(daily_logs) <= 1
        /\ LoopExited =>
                /\ PickupsIn(daily_logs) = 1
                /\ Noted(daily_logs[PickupDay], "Pickup") # {}

\* C10: a call with a non-positive total drive time does not return: it
\* returns no list, stores no sheet.
C10_RejectsNonPositive ==
    total_drive_time <= 0 =>
        /\ pc # "returned"
        /\ returned = <<"none">>
        /\ saved = <<>>

\* =========================================================== StopPlanner
\* Miles and hours are floats in the code; here they are exact fractions
\* [n, d] with d > 0, equal when QEq says so.
FUEL_STOP_INTERVAL_MILES == 1000
REQUIRED_REST_HOURS == 10
MERGE_THRESHOLD_MILES == 50

\* self.total_distance is k * DistanceStep miles, k \in 1..MaxDistanceK
DistanceStep == 250
MaxDistanceK == 10
\* self.total_duration is k / 2 hours, k \in 1..MaxDurationHalfHours
MaxDurationHalfHours == 110

Q(n, d) == [n |-> n, d |-> d]
QInt(k) == [n |-> k, d |-> 1]
QAdd(a, b) == Q(a.n * b.d + b.n * a.d, a.d * b.d)
QSub(a, b) == Q(a.n * b.d - b.n * a.d, a.d * b.d)
QMul(a, b) == Q(a.n * b.n, a.d * b.d)
\* a / b for b > 0
QDiv(a, b) == Q(a.n * b.d, a.d * b.n)
QLess(a, b) == a.n * b.d < b.n * a.d
QEq(a, b) == a.n * b.d = b.n * a.d
QAbs(a) == [n |-> Abs(a.n), d |-> a.d]
\* max(a, b): b only when it is the greater
QMax(a, b) == IF QLess(a, b) THEN b ELSE a
\* int(a) for a >= 0
QInteger(a) == a.n \div a.d

Stop(distance, time, type, duration) ==
    [distance |-> distance, time |-> time, type |-> type,
     duration |-> duration]

\* _plan_fuel_stops with range(1, num_fuel_stops): the last stop is lost
FuelStopsOneShort(distance, duration) ==
    LET num_fuel_stops ==
            QInteger(QDiv(distance, QInt(FUEL_STOP_INTERVAL_MILES)))
    IN  [ i \in 1..(num_fuel_stops - 1) |->
            Stop(QInt(i * FUEL_STOP_INTERVAL_MILES),
                 QMul(QDiv(QInt(i * FUEL_STOP_INTERVAL_MILES), distance),
                      duration),
                 "FUEL", Q(1, 2)) ]

\* lines 47-61: _plan_fuel_stops
FuelStops(distance, duration) ==
    LET num_fuel_stops ==
            QInteger(QDiv(distance, QInt(FUEL_STOP_INTERVAL_MILES)))
    IN  [ i \in 1..num_fuel_stops |->
            Stop(QInt(i * FUEL_STOP_INTERVAL_MILES),
                 QMul(QDiv(QInt(i * FUEL_STOP_INTERVAL_MILES), distance),
                      duration),
                 "FUEL", Q(1, 2)) ]

\* lines 31, 43-61: plan_stops calls _plan_fuel_stops; lines 67-68 follow
PlanFuelStops ==
    /\ plan_pc = "fuel"
    /\ fuel_stops' = FuelStops(total_distance, total_duration)
    /\ rest_stops' = <<>>
    /\ current_driving_time' = QInt(0)
    /\ plan_pc' = "rest_loop"
    /\ UNCHANGED << total_distance, total_duration, merged_stops,
                    remerged_stops, simulatorVars, routeVars, rateVars,
                    dbVars, generatorVars >>

\* line 82 without the rest: the clock moves on by the driving hours only
DrivingTimeAfterRestNoRest(t) ==
    QAdd(t, QInt(MAX_DRIVING_HOURS))

\* line 82: the clock moves on by the driving and the rest
DrivingTimeAfterRest(t) ==
    QAdd(t, QInt(MAX_DRIVING_HOURS + REQUIRED_REST_HOURS))

\* lines 70-82: a rest stop after MAX_DRIVING_HOURS more of driving
AddRestStop ==
    /\ plan_pc = "rest_loop"
    /\ QLess(current_driving_time, total_duration)
    /\ QLess(QAdd(current_driving_time, QInt(MAX_DRIVING_HOURS)),
             total_duration)
    /\ LET time == QAdd(current_driving_time, QInt(MAX_DRIVING_HOURS))
           distance_at_stop ==
               QMul(QDiv(time, total_duration), total_distance)
       IN  rest_stops' =
               Append(rest_stops,
                      Stop(distance_at_stop, time, "REST",
                           QInt(REQUIRED_REST_HOURS)))
    /\ current_driving_time' = DrivingTimeAfterRest(current_driving_time)
    /\ UNCHANGED << plan_pc, total_distance, total_duration, fuel_stops,
                    merged_stops, remerged_stops, simulatorVars, routeVars,
                    rateVars, dbVars, generatorVars >>

\* lines 83-84: less than MAX_DRIVING_HOURS of the trip is left
RestBreak ==
    /\ plan_pc = "rest_loop"
    /\ QLess(current_driving_time, total_duration)
    /\ ~QLess(QAdd(current_driving_time, QInt(MAX_DRIVING_HOURS)),
              total_duration)
    /\ plan_pc' = "merge"
    /\ UNCHANGED << total_distance, total_duration, fuel_stops, rest_stops,
                    current_driving_time, merged_stops, remerged_stops,
                    simulatorVars, routeVars, rateVars, dbVars,
                    generatorVars >>

\* line 70, condition false
RestLoopExit ==
    /\ plan_pc = "rest_loop"
    /\ ~QLess(current_driving_time, total_duration)
    /\ plan_pc' = "merge"
    /\ UNCHANGED << total_distance, total_duration, fuel_stops, rest_stops,
                    current_driving_time, merged_stops, remerged_stops,
                    simulatorVars, routeVars, rateVars, dbVars,
                    generatorVars >>

\* list.sort(key=distance) without sorting
SortByDistanceUnsorted(all_stops) ==
    all_stops

\* line 93: list.sort(key=lambda x: x['distance']), a stable sort
RECURSIVE SortByDistance(_)
SortByDistance(all_stops) ==
    IF all_stops = <<>> THEN <<>>
    ELSE LET last == all_stops[Len(all_stops)]
             front == SortByDistance(SubSeq(all_stops, 1, Len(all_stops) - 1))
             k == Cardinality({ i \in 1..Len(front) :
                                  ~QLess(last.distance, front[i].distance) })
         IN  SubSeq(front, 1, k) \o <<last>> \o SubSeq(front, k + 1, Len(front))

\* lines 101-102: the stop after index i lies within the threshold of the
\* stop the run started with
Nearby(all_stops, first, i) ==
    /\ i + 1 <= Len(all_stops)
    /\ QLess(QAbs(QSub(all_stops[i + 1].distance, all_stops[first].distance)),
             QInt(MERGE_THRESHOLD_MILES))

\* the look-ahead as an if: one neighbour at most is merged
RunEndOneLookAhead(all_stops, first, i) ==
    IF i = first /\ Nearby(all_stops, first, i) THEN i + 1 ELSE i

\* lines 101-107: the index the look-ahead loop stops at
RECURSIVE RunEnd(_, _, _)
RunEnd(all_stops, first, i) ==
    IF Nearby(all_stops, first, i) THEN RunEnd(all_stops, first, i + 1)
                                   ELSE i

\* line 106 taking the later stop's duration
RunDurationOfLast(all_stops, first, last) ==
    all_stops[last].duration

\* lines 98, 106: the duration of the merged stop
RECURSIVE RunDuration(_, _, _)
RunDuration(all_stops, first, last) ==
    IF last = first THEN all_stops[first].duration
    ELSE QMax(RunDuration(all_stops, first, last - 1),
              all_stops[last].duration)

\* lines 98-109: the stop appended for the run first..last
MergedStop(all_stops, first, last) ==
    [ all_stops[first] EXCEPT
        !.type = IF last > first THEN "BOTH" ELSE @,
        !.duration = RunDuration(all_stops, first, last) ]

\* lines 96-110: the outer loop from index i
RECURSIVE MergeFrom(_, _)
MergeFrom(all_stops, i) ==
    IF i > Len(all_stops) THEN <<>>
    ELSE LET last == RunEnd(all_stops, i, i)
         IN  <<MergedStop(all_stops, i, last)>>
                \o MergeFrom(all_stops, last + 1)

\* lines 88-112: _merge_stops
MergeStops(fuel, rest) ==
    MergeFrom(SortByDistance(fuel \o rest), 1)

\* line 35: plan_stops calls _merge_stops
MergePlannedStops ==
    /\ plan_pc = "merge"
    /\ merged_stops' = MergeStops(fuel_stops, rest_stops)
    /\ plan_pc' = "merged"
    /\ UNCHANGED << total_distance, total_duration, fuel_stops, rest_stops,
                    current_driving_time, remerged_stops, simulatorVars,
                    routeVars, rateVars, dbVars, generatorVars >>

\* _merge_stops applied to the list it returned, with no further stops
MergeAgain ==
    /\ plan_pc = "merged"
    /\ remerged_stops' = MergeStops(merged_stops, <<>>)
    /\ plan_pc' = "remerged"
    /\ UNCHANGED << total_distance, total_duration, fuel_stops, rest_stops,
                    current_driving_time, merged_stops, simulatorVars,
                    routeVars, rateVars, dbVars, generatorVars >>

SimulatorIdle ==
    /\ pc = "idle"
    /\ current_time = 0
    /\ current_cycle_used = 0
    /\ route_duration = 0
    /\ leg0_duration = 0
    /\ remaining_cycle = 0
    /\ total_drive_time = 0
    /\ daily_logs = <<>>
    /\ current_day = 0
    /\ day_drive_time = 0
    /\ day_on_duty_time = 0
    /\ day_off_duty_time = 0
    /\ remaining_drive_time = 0
    /\ remaining_on_duty_time = 0
    /\ simulation_time = 0
    /\ total_elapsed_drive_time = 0
    /\ log_sheet = NewSheet(0)
    /\ saved = <<>>
    /\ returned = <<"none">>

\* lines 19-23: StopPlanner(route_data), a route of some distance and
\* duration
NewStopPlanner ==
    /\ plan_pc = "idle"
    /\ total_distance' \in { QInt(k * DistanceStep) : k \in 1..MaxDistanceK }
    /\ total_duration' \in { Q(k, 2) : k \in 1..MaxDurationHalfHours }
    /\ plan_pc' = "fuel"
    /\ UNCHANGED << fuel_stops, rest_stops, current_driving_time,
                    merged_stops, remerged_stops, simulatorVars, routeVars,
                    rateVars, dbVars, generatorVars >>

PlannerInit ==
    /\ PlannerIdle
    /\ SimulatorIdle
    /\ DbEmpty
    /\ GeneratorIdle
    /\ RouteIdle
    /\ RateIdle

PlannerNext ==
    \/ NewStopPlanner
    \/ PlanFuelStops
    \/ AddRestStop
    \/ RestBreak
    \/ RestLoopExit
    \/ MergePlannedStops

PlannerSpec == PlannerInit /\ [][PlannerNext]_vars

\* the steps of plan_stops up to the return of _plan_rest_stops
PlanRestStops ==
    \/ NewStopPlanner
    \/ PlanFuelStops
    \/ AddRestStop
    \/ RestBreak
    \/ RestLoopExit

\* a call that has started goes on until it returns
PlannerFairSpec == PlannerSpec /\ WF_vars(PlanRestStops)

\* _merge_stops on its own: stops lie at k * MergeDistanceStep miles,
\* k \in 0..MaxMergeDistanceK, at most MaxMergeStops of them in the two lists
MergeDistanceStep == 20
MaxMergeDistanceK == 4
MaxMergeStops == 3

MergeDistances == { k * MergeDistanceStep : k \in 0..MaxMergeDistanceK }
StopDurations == { Q(1, 2), QInt(REQUIRED_REST_HOURS) }

\* the lists of n stops of one type; a stop's time tells the stops apart
StopLists(type, n, offset) ==
    { [ i \in 1..n |-> Stop(QInt(d[i]), QInt(offset + i), type, u[i]) ] :
        d \in [1..n -> MergeDistances], u \in [1..n -> StopDurations] }

\* line 88: _merge_stops called with two lists of stops, in any order
MergeInit ==
    /\ plan_pc = "merge"
    /\ total_distance = QInt(0)
    /\ total_duration = QInt(0)
    /\ current_driving_time = QInt(0)
    /\ \E nf \in 0..MaxMergeStops, nr \in 0..MaxMergeStops :
          /\ nf + nr <= MaxMergeStops
          /\ fuel_stops \in StopLists("FUEL", nf, 0)
          /\ rest_stops \in StopLists("REST", nr, MaxMergeStops)
    /\ merged_stops = <<>>
    /\ remerged_stops = <<>>
    /\ SimulatorIdle
    /\ DbEmpty
    /\ GeneratorIdle
    /\ RouteIdle
    /\ RateIdle

MergeNext ==
    \/ MergePlannedStops
    \/ MergeAgain

MergeSpec == MergeInit /\ [][MergeNext]_vars

\* ------------------------------------------------------------ claims
FuelPlanned == plan_pc \in {"rest_loop", "merge", "merged"}
RestPlanned == plan_pc \in {"merge", "merged"}
Merged == plan_pc \in {"merged", "remerged"}

\* the whole number k with k * unit <= q < (k + 1) * unit, for q >= 0
FloorOf(q, unit) ==
    CHOOSE k \in 0..q.n : /\ k * unit * q.d <= q.n
                          /\ q.n < (k + 1) * unit * q.d

\* C11: _plan_fuel_stops returns floor(D / 1000) stops, the i-th of type
\* FUEL at 1000 * i miles, at time (1000 * i / D) * T, lasting half an hour.
C11_FuelStops ==
    FuelPlanned =>
        /\ Len(fuel_stops) = FloorOf(total_distance, FUEL_STOP_INTERVAL_MILES)
        /\ \A i \in 1..Len(fuel_stops) :
              /\ QEq(fuel_stops[i].distance, QInt(FUEL_STOP_INTERVAL_MILES * i))
              /\ QEq(QMul(fuel_stops[i].time, total_distance),
                     QMul(QInt(FUEL_STOP_INTERVAL_MILES * i), total_duration))
              /\ fuel_stops[i].type = "FUEL"
              /\ QEq(QAdd(fuel_stops[i].duration, fuel_stops[i].duration),
                     QInt(1))

\* 2500 miles: two fuel stops, at 1000 and 2000 miles
C11_Witness ==
    /\ FuelPlanned
    /\ QEq(total_distance, QInt(2500))
    /\ Len(fuel_stops) = 2
    /\ QEq(fuel_stops[1].distance, QInt(1000))
    /\ QEq(fuel_stops[2].distance, QInt(2000))

\* the k >= 0 with 11 + 21 * k < T
RestIndices ==
    { k \in 0..MaxDurationHalfHours :
        QLess(QInt(MAX_DRIVING_HOURS
                   + (MAX_DRIVING_HOURS + REQUIRED_REST_HOURS) * k),
              total_duration) }

RestStopsExact ==
    /\ Len(rest_stops) = Cardinality(RestIndices)
    /\ \A k \in RestIndices :
          /\ k + 1 <= Len(rest_stops)
          /\ QEq(rest_stops[k + 1].time,
                 QInt(MAX_DRIVING_HOURS
                      + (MAX_DRIVING_HOURS + REQUIRED_REST_HOURS) * k))
          /\ QEq(rest_stops[k + 1].duration, QInt(REQUIRED_REST_HOURS))
          /\ rest_stops[k + 1].type = "REST"
          /\ QEq(QMul(rest_stops[k + 1].distance, total_duration),
                 QMul(rest_stops[k + 1].time, total_distance))

\* C12: _plan_rest_stops terminates, and returns one rest stop of 10 hours
\* for each k >= 0 with 11 + 21 * k < T, at time 11 + 21 * k and at the
\* distance (time / T) * total_distance.
C12_RestStops ==
    /\ [](RestPlanned => RestStopsExact)
    /\ <>RestPlanned

\* 25 hours: one rest stop, at 11 hours
C12_Witness ==
    /\ RestPlanned
    /\ QEq(total_duration, QInt(25))
    /\ Len(rest_stops) = 1
    /\ QEq(rest_stops[1].time, QInt(11))

\* C13: the list _merge_stops returns is in strictly increasing distance
\* order and no two of its stops are less than 50 miles apart.
C13_MergedApart ==
    Merged =>
        \A i, j \in 1..Len(merged_stops) :
            i < j =>
                /\ QLess(merged_stops[i].distance, merged_stops[j].distance)
                /\ ~QLess(QSub(merged_stops[j].distance,
                               merged_stops[i].distance),
                          QInt(MERGE_THRESHOLD_MILES))

\* lists given out of distance order, some stops merged, two stops left
C13_Witness ==
    /\ Merged
    /\ Len(merged_stops) = 2
    /\ Len(fuel_stops) + Len(rest_stops) = 3
    /\ Len(fuel_stops) = 2
    /\ QLess(fuel_stops[2].distance, fuel_stops[1].distance)

\* the first index of the run of index i, a run going on while a stop is
\* less than 50 miles from the stop before it
RECURSIVE ConsecutiveRunStart(_, _)
ConsecutiveRunStart(all_stops, i) ==
    IF i = 1 THEN 1
    ELSE IF QLess(QSub(all_stops[i].distance, all_stops[i - 1].distance),
                  QInt(MERGE_THRESHOLD_MILES))
         THEN ConsecutiveRunStart(all_stops, i - 1)
         ELSE i

\* the first index of the run of index i, a run going on while a stop is
\* less than 50 miles from the first stop of the run
RECURSIVE AnchoredRunStart(_, _)
AnchoredRunStart(all_stops, i) ==
    IF i = 1 THEN 1
    ELSE LET a == AnchoredRunStart(all_stops, i - 1)
         IN  IF QLess(QSub(all_stops[i].distance, all_stops[a].distance),
                      QInt(MERGE_THRESHOLD_MILES))
             THEN a
             ELSE i

\* out holds one stop for each run of all_stops, in order: the run's first
\* stop, unchanged when the run is that stop alone, and otherwise of type
\* BOTH and of the longest duration in the run
CollapsesRuns(all_stops, out, RunStart(_, _)) ==
    LET starts == { RunStart(all_stops, i) : i \in 1..Len(all_stops) }
        run(a) == { i \in 1..Len(all_stops) : RunStart(all_stops, i) = a }
        rank(a) == Cardinality({ b \in starts : b <= a })
    IN  /\ Len(out) = Cardinality(starts)
        /\ \A a \in starts :
              /\ out[rank(a)].distance = all_stops[a].distance
              /\ out[rank(a)].time = all_stops[a].time
              /\ Cardinality(run(a)) = 1 => out[rank(a)] = all_stops[a]
              /\ Cardinality(run(a)) > 1 =>
                    /\ out[rank(a)].type = "BOTH"
                    /\ \E i \in run(a) :
                          out[rank(a)].duration = all_stops[i].duration
                    /\ \A i \in run(a) :
                          ~QLess(out[rank(a)].duration, all_stops[i].duration)

\* C14 as stated: every maximal run of sorted stops whose consecutive
\* distances differ by less than 50 miles becomes one stop.
C14_ConsecutiveRuns ==
    Merged =>
        CollapsesRuns(SortByDistance(fuel_stops \o rest_stops), merged_stops,
                      ConsecutiveRunStart)

\* C14: _merge_stops collapses every maximal run of distance-sorted stops
\* that lie less than 50 miles from the first stop of the run into one stop
\* of type BOTH, of the maximum duration in the run and with the distance
\* and time of the run's first stop; a stop alone in its run is unchanged.
C14_AnchoredRuns ==
    Merged =>
        CollapsesRuns(SortByDistance(fuel_stops \o rest_stops), merged_stops,
                      AnchoredRunStart)

\* stops at 0, 40 and 80 miles: two stops come out, at 0 (BOTH, with the
\* longer duration, which the second stop had) and at 80 miles
C14_Witness ==
    /\ Merged
    /\ Len(fuel_stops) = 2
    /\ Len(rest_stops) = 1
    /\ QEq(fuel_stops[1].distance, QInt(0))
    /\ QEq(fuel_stops[2].distance, QInt(80))
    /\ QEq(rest_stops[1].distance, QInt(40))
    /\ QLess(fuel_stops[1].duration, rest_stops[1].duration)
    /\ Len(merged_stops) = 2
    /\ merged_stops[1].type = "BOTH"
    /\ merged_stops[1].duration = rest_stops[1].duration
    /\ merged_stops[2] = fuel_stops[2]

\* C15: _merge_stops applied to the list it returned, with no further
\* stops, returns the same list, stop for stop.
C15_MergeIdempotent ==
    plan_pc = "remerged" => remerged_stops = merged_stops

\* merged twice, the first time with a merge and with two stops left
C15_Witness ==
    /\ plan_pc = "remerged"
    /\ Len(merged_stops) = 2
    /\ Len(fuel_stops) + Len(rest_stops) = 3
    /\ merged_stops[1].type = "BOTH"
    /\ remerged_stops = merged_stops

\* ======================================================= eld_logs models
\* A TimeField holds a time of day, here in seconds since midnight; hours
\* (floats in the code) are counted in minutes, sixtieths of an hour.
MinutesPerHour == 60
MinutesPerDay == HoursPerDay * MinutesPerHour

\* start_time and end_time are k * TimeStep minutes past midnight, wrapped
\* into the day, k \in 0..MaxTimeK
TimeStep == 15
MaxTimeK == 95
\* a log sheet has at most MaxChanges duty status changes
MaxChanges == 2

\* datetime.time(h, m)
Clock(h, m) == Hours(h) + m * SecondsPerMinute

TimesOfDay ==
    { ((k * TimeStep) % MinutesPerDay) * SecondsPerMinute :
        k \in 0..MaxTimeK }

\* the periods of the rows of eld_logs/tests.py, and one across midnight
SamplePeriods ==
    { <<Clock(8, 0), Clock(8, 15)>>, <<Clock(8, 15), Clock(12, 15)>>,
      <<Clock(22, 0), Clock(2, 0)>> }

STATUS_CHOICES == {"OFF", "SB", "D", "ON"}

LogSheet(trip, date) == [trip |-> trip, date |-> date]

DutyStatusChange(sheet, status, start_time, end_time) ==
    [log_sheet |-> sheet, status |-> status, start_time |-> start_time,
     end_time |-> end_time]

\* duration_hours without the midnight adjustment of lines 74-75
DurationHoursSameDay(change) ==
    LET start_minutes == HourOf(change.start_time) * MinutesPerHour
                            + MinuteOf(change.start_time)
        end_minutes == HourOf(change.end_time) * MinutesPerHour
                          + MinuteOf(change.end_time)
    IN  end_minutes - start_minutes

\* lines 70-77: DutyStatusChange.duration_hours
duration_hours(change) ==
    LET start_minutes == HourOf(change.start_time) * MinutesPerHour
                            + MinuteOf(change.start_time)
        end_minutes == HourOf(change.end_time) * MinutesPerHour
                          + MinuteOf(change.end_time)
    IN  IF end_minutes < start_minutes
        THEN end_minutes + MinutesPerDay - start_minutes
        ELSE end_minutes - start_minutes

\* self.duty_status_changes.filter(status__in=statuses): the rows of the
\* sheet with one of the statuses
duty_status_changes(sheet, statuses) ==
    SelectSeq(db_duty_status_changes,
              LAMBDA c : c.log_sheet = sheet /\ c.status \in statuses)

\* sum(status.duration_hours for status in changes)
RECURSIVE SumDurationHours(_)
SumDurationHours(changes) ==
    IF changes = <<>> THEN 0
    ELSE SumDurationHours(SubSeq(changes, 1, Len(changes) - 1))
            + duration_hours(changes[Len(changes)])

\* lines 27-32: LogSheet.total_driving_hours
total_driving_hours(sheet) ==
    SumDurationHours(duty_status_changes(sheet, {"D"}))

\* total_on_duty_hours with no filter on the status
TotalOnDutyHoursAllStatuses(sheet) ==
    SumDurationHours(duty_status_changes(sheet, STATUS_CHOICES))

\* lines 34-39: LogSheet.total_on_duty_hours
total_on_duty_hours(sheet) ==
    SumDurationHours(duty_status_changes(sheet, {"D", "ON"}))

\* DutyStatusChange.objects.create(log_sheet=..., status=..., start_time=...,
\* end_time=...) for a sheet that has fewer than limit rows
CreateDutyStatusChange(periods, limit) ==
    /\ Len(db_duty_status_changes) < limit
    /\ \E sheet \in 1..Len(db_log_sheets), status \in STATUS_CHOICES,
          period \in periods :
          db_duty_status_changes' =
              Append(db_duty_status_changes,
                     DutyStatusChange(sheet, status, period[1], period[2]))
    /\ UNCHANGED << db_log_sheets, property_read, db_rest_stops, db_trips,
                    simulatorVars, routeVars, rateVars, plannerVars,
                    generatorVars >>

\* a read of change.duration_hours
ReadDurationHours ==
    /\ \E i \in 1..Len(db_duty_status_changes) :
          property_read' =
              [change |-> i,
               duration_hours |-> duration_hours(db_duty_status_changes[i])]
    /\ UNCHANGED << db_log_sheets, db_duty_status_changes, db_rest_stops,
                    db_trips, simulatorVars, routeVars, rateVars, plannerVars,
                    generatorVars >>

\* a read of log_sheet.total_driving_hours and .total_on_duty_hours
ReadTotalHours ==
    /\ \E sheet \in 1..Len(db_log_sheets) :
          property_read' =
              [log_sheet |-> sheet,
               total_driving_hours |-> total_driving_hours(sheet),
               total_on_duty_hours |-> total_on_duty_hours(sheet)]
    /\ UNCHANGED << db_log_sheets, db_duty_status_changes, db_rest_stops,
                    db_trips, simulatorVars, routeVars, rateVars, plannerVars,
                    generatorVars >>

\* two log sheets of one trip, no duty status change yet
ModelsInit ==
    /\ db_log_sheets = << LogSheet(1, 0), LogSheet(1, 1) >>
    /\ db_duty_status_changes = <<>>
    /\ property_read = <<>>
    /\ db_rest_stops = <<>>
    /\ db_trips = <<>>
    /\ SimulatorIdle
    /\ PlannerIdle
    /\ GeneratorIdle
    /\ RouteIdle
    /\ RateIdle

\* one duty status change between any two times of day
CreateOneChange == CreateDutyStatusChange(TimesOfDay \X TimesOfDay, 1)

DurationNext ==
    \/ CreateOneChange
    \/ ReadDurationHours

DurationSpec == ModelsInit /\ [][DurationNext]_vars

\* up to MaxChanges duty status changes over the sample periods
CreateSampleChange == CreateDutyStatusChange(SamplePeriods, MaxChanges)

TotalsNext ==
    \/ CreateSampleChange
    \/ ReadTotalHours

TotalsSpec == ModelsInit /\ [][TotalsNext]_vars

\* ------------------------------------------------------------ claims
MinutesOfDay(t) == t \div SecondsPerMinute

DurationRead == "duration_hours" \in DOMAIN property_read
TotalsRead == "total_on_duty_hours" \in DOMAIN property_read

\* C16: duration_hours is ((end_minutes - start_minutes) mod 1440) / 60
\* for every start and end time of day, so it is never negative.
C16_DurationHours ==
    DurationRead =>
        LET change == db_duty_status_changes[property_read.change]
        IN  /\ property_read.duration_hours
                 = (MinutesOfDay(change.end_time)
                      - MinutesOfDay(change.start_time)) % MinutesPerDay
            /\ property_read.duration_hours >= 0

\* start 22:00, end 02:00: 4.0 hours
C16_Witness ==
    /\ DurationRead
    /\ db_duty_status_changes[property_read.change].start_time = Clock(22, 0)
    /\ db_duty_status_changes[property_read.change].end_time = Clock(2, 0)
    /\ property_read.duration_hours = 4 * MinutesPerHour

\* the minutes from start to end of the rows in S, summed
RECURSIVE MinutesOfRows(_)
MinutesOfRows(S) ==
    IF S = {} THEN 0
    ELSE LET i == CHOOSE i \in S : TRUE
             change == db_duty_status_changes[i]
         IN  ((MinutesOfDay(change.end_time)
                  - MinutesOfDay(change.start_time)) % MinutesPerDay)
             + MinutesOfRows(S \ {i})

RowsOf(sheet, statuses) ==
    { i \in 1..Len(db_duty_status_changes) :
        /\ db_duty_status_changes[i].log_sheet = sheet
        /\ db_duty_status_changes[i].status \in statuses }

\* C17: total_driving_hours is the sum of duration_hours over the sheet's
\* changes with status D, total_on_duty_hours the sum over those with status
\* D or ON, and so total_on_duty_hours >= total_driving_hours.
C17_TotalHours ==
    [][ReadTotalHours =>
          /\ property_read'.total_driving_hours
                = MinutesOfRows(RowsOf(property_read'.log_sheet, {"D"}))
          /\ property_read'.total_on_duty_hours
                = MinutesOfRows(RowsOf(property_read'.log_sheet, {"D", "ON"}))
          /\ property_read'.total_on_duty_hours
                >= property_read'.total_driving_hours]_vars

\* the rows of tests.py (ON 08:00-08:15, D 08:15-12:15): 4.0 and 4.25 hours
C17_Witness ==
    /\ TotalsRead
    /\ property_read.log_sheet = 1
    /\ db_duty_status_changes
          = << DutyStatusChange(1, "ON", Clock(8, 0), Clock(8, 15)),
               DutyStatusChange(1, "D", Clock(8, 15), Clock(12, 15)) >>
    /\ property_read.total_driving_hours = 4 * MinutesPerHour
    /\ property_read.total_on_duty_hours = 4 * MinutesPerHour + 15

\* ========================================================== LogGenerator
\* Datetimes are seconds since the midnight the model's day 0 starts with;
\* hours (floats in the code) are counted in seconds.

\* a stop's planned_arrival is k * ArrivalStepHours hours after the trip's
\* created_at, k \in 0..MaxArrivalK; a trip has at most MaxStops stops
ArrivalStepHours == 6
MaxArrivalK == 3
MaxStops == 2

\* RestStop.STOP_TYPES
STOP_TYPES == {"REST", "FUEL", "BOTH"}

\* trip.created_at: at midnight, or at 08:00
CreatedAts == { Clock(0, 0), Clock(8, 0) }

\* planned_departure - planned_arrival: an hour, or ten
StopLengths == { Hours(1), Hours(REQUIRED_REST_HOURS) }

RestStop(type, planned_arrival, planned_departure) ==
    [type |-> type, planned_arrival |-> planned_arrival,
     planned_departure |-> planned_departure]

\* the RestStop rows a trip created at created_at can have
RestStops(created_at) ==
    { RestStop(type, created_at + Hours(k * ArrivalStepHours),
               created_at + Hours(k * ArrivalStepHours) + length) :
        type \in STOP_TYPES, k \in 0..MaxArrivalK, length \in StopLengths }

\* datetime.date() as a day number, datetime.time() as seconds of the day
DateOf(t) == t \div Day
TimeOf(t) == t % Day

Segment(start_time, end_time, status_changes) ==
    [start_time |-> start_time, end_time |-> end_time,
     status_changes |-> status_changes]

StatusChange(status, duration) == [status |-> status, duration |-> duration]

\* a trip without stops gets no segment
NoStopSegmentsNone(created_at) ==
    << >>

\* lines 66-85: the one segment of a trip without stops, 0.25 and 1.75 hours
NoStopSegments(created_at) ==
    << Segment(created_at, created_at + Hours(2),
               << StatusChange("ON", Hours(1) \div 4),
                  StatusChange("D", (7 * Hours(1)) \div 4) >>) >>

\* lines 90-105: the driving segment before a stop, if any
DrivingSegments(stop, time) ==
    LET drive_duration == stop.planned_arrival - time
    IN  IF drive_duration > 0
        THEN << Segment(time, stop.planned_arrival,
                        << StatusChange("D", drive_duration) >>) >>
        ELSE << >>

\* lines 108-123: the segment of the stop
StopSegment(stop) ==
    LET stop_duration == stop.planned_departure - stop.planned_arrival
        stop_status == IF stop.type = "REST" THEN "OFF" ELSE "ON"
    IN  Segment(stop.planned_arrival, stop.planned_departure,
                << StatusChange(stop_status, stop_duration) >>)

\* line 125 taking the arrival of the stop
CurrentTimeAfterArrival(stop) ==
    stop.planned_arrival

\* line 125: current_time = stop.planned_departure
CurrentTimeAfter(stop) ==
    stop.planned_departure

\* lines 88-126: the for loop from stop i
RECURSIVE SegmentsFrom(_, _, _)
SegmentsFrom(rest_stop_list, i, time) ==
    IF i > Len(rest_stop_list) THEN << >>
    ELSE DrivingSegments(rest_stop_list[i], time)
            \o << StopSegment(rest_stop_list[i]) >>
            \o SegmentsFrom(rest_stop_list, i + 1,
                            CurrentTimeAfter(rest_stop_list[i]))

\* lines 57-128: _calculate_trip_segments
calculate_trip_segments(rest_stop_list, created_at) ==
    IF rest_stop_list = << >> THEN NoStopSegments(created_at)
    ELSE SegmentsFrom(rest_stop_list, 1, created_at)

\* line 38: RestStop.objects.filter(trip=self.trip).order_by(
\* 'planned_arrival'), the trip having any stops; stops of equal arrival
\* come in any order
QueryStops ==
    /\ gen_pc = "query"
    /\ \E n \in 0..MaxStops :
          \E rows \in [1..n -> RestStops(trip_created_at)] :
              /\ \A i \in 1..(n - 1) :
                    rows[i].planned_arrival <= rows[i + 1].planned_arrival
              /\ stops' = rows
    /\ gen_pc' = "segments"
    /\ UNCHANGED << trip_created_at, segments, next_segment, current_date,
                    log_sheets, simulatorVars, routeVars, rateVars,
                    plannerVars, dbVars >>

\* lines 41-45
CalculateTripSegments ==
    /\ gen_pc = "segments"
    /\ segments' = calculate_trip_segments(stops, trip_created_at)
    /\ log_sheets' = << >>
    /\ current_date' = DateOf(trip_created_at)
    /\ next_segment' = 1
    /\ gen_pc' = "loop"
    /\ UNCHANGED << trip_created_at, stops, simulatorVars, routeVars,
                    rateVars, plannerVars, dbVars >>

\* unique_together = ['trip', 'date'] (models.py lines 20-22)
SheetExists(trip, date) ==
    \E i \in 1..Len(db_log_sheets) :
        db_log_sheets[i].trip = trip /\ db_log_sheets[i].date = date

\* lines 143-159: the rows written for the status changes, the clock
\* starting at midnight of the sheet's date
RECURSIVE StatusChangeRows(_, _, _)
StatusChangeRows(sheet, status_changes, time) ==
    IF status_changes = << >> THEN << >>
    ELSE << DutyStatusChange(sheet, status_changes[1].status, TimeOf(time),
                             TimeOf(time + status_changes[1].duration)) >>
            \o StatusChangeRows(sheet, Tail(status_changes),
                                time + status_changes[1].duration)

\* lines 47-50, 130-161: a log sheet for the next segment
CreateLogSheet ==
    /\ gen_pc = "loop"
    /\ next_segment <= Len(segments)
    /\ ~SheetExists(1, current_date)
    /\ db_log_sheets' = Append(db_log_sheets, LogSheet(1, current_date))
    /\ db_duty_status_changes' =
          db_duty_status_changes
            \o StatusChangeRows(Len(db_log_sheets) + 1,
                                segments[next_segment].status_changes,
                                current_date * Day)
    /\ log_sheets' = Append(log_sheets, Len(db_log_sheets) + 1)
    /\ current_date' = current_date + 1
    /\ next_segment' = next_segment + 1
    /\ UNCHANGED << gen_pc, trip_created_at, stops, segments, property_read,
                    db_rest_stops, db_trips, simulatorVars, routeVars,
                    rateVars, plannerVars >>

\* lines 135-140, 54-55: the trip has a log sheet of that date already,
\* IntegrityError, raised again as LogGenerationError
CreateLogSheetRaises ==
    /\ gen_pc = "loop"
    /\ next_segment <= Len(segments)
    /\ SheetExists(1, current_date)
    /\ gen_pc' = "raised"
    /\ UNCHANGED << trip_created_at, stops, segments, next_segment,
                    current_date, log_sheets, simulatorVars, routeVars,
                    rateVars, plannerVars, dbVars >>

\* line 52
ReturnLogSheets ==
    /\ gen_pc = "loop"
    /\ next_segment > Len(segments)
    /\ gen_pc' = "returned"
    /\ UNCHANGED << trip_created_at, stops, segments, next_segment,
                    current_date, log_sheets, simulatorVars, routeVars,
                    rateVars, plannerVars, dbVars >>

\* lines 29-30: a generator for a trip that has no log sheet, or one
GeneratorInit ==
    /\ gen_pc = "query"
    /\ trip_created_at \in CreatedAts
    /\ stops = << >>
    /\ segments = << >>
    /\ next_segment = 0
    /\ current_date = 0
    /\ log_sheets = << >>
    /\ db_log_sheets \in { << >>, << LogSheet(1, 0) >>, << LogSheet(1, 1) >> }
    /\ db_duty_status_changes = << >>
    /\ property_read = << >>
    /\ db_rest_stops = << >>
    /\ db_trips = << >>
    /\ SimulatorIdle
    /\ PlannerIdle
    /\ RouteIdle
    /\ RateIdle

GeneratorNext ==
    \/ QueryStops
    \/ CalculateTripSegments
    \/ CreateLogSheet
    \/ CreateLogSheetRaises
    \/ ReturnLogSheets

GeneratorSpec == GeneratorInit /\ [][GeneratorNext]_vars

\* ------------------------------------------------------------ claims
SegmentsCalculated == gen_pc \in {"loop", "returned", "raised"}

\* the departure before stop i, the trip's creation for the first stop
DepartureBefore(i) ==
    IF i = 1 THEN trip_created_at ELSE stops[i - 1].planned_departure

\* every stop is reached strictly after the stop before it was left
StrictlyChronological ==
    \A i \in 1..Len(stops) : stops[i].planned_arrival > DepartureBefore(i)

\* C18: for n >= 1 stops, each arriving strictly after the departure before
\* it, _calculate_trip_segments returns 2 * n segments: for each stop in
\* order a Driving segment of arrival minus previous departure, then a stop
\* segment of departure minus arrival.
C18_TwoSegmentsPerStop ==
    (SegmentsCalculated /\ Len(stops) >= 1 /\ StrictlyChronological) =>
        /\ Len(segments) = 2 * Len(stops)
        /\ \A i \in 1..Len(stops) :
              /\ Len(segments[2 * i - 1].status_changes) = 1
              /\ segments[2 * i - 1].status_changes[1].status = "D"
              /\ segments[2 * i - 1].status_changes[1].duration
                    = stops[i].planned_arrival - DepartureBefore(i)
              /\ segments[2 * i - 1].start_time = DepartureBefore(i)
              /\ segments[2 * i - 1].end_time = stops[i].planned_arrival
              /\ Len(segments[2 * i].status_changes) = 1
              /\ segments[2 * i].status_changes[1].status \in {"OFF", "ON"}
              /\ segments[2 * i].status_changes[1].duration
                    = stops[i].planned_departure - stops[i].planned_arrival
              /\ segments[2 * i].start_time = stops[i].planned_arrival
              /\ segments[2 * i].end_time = stops[i].planned_departure

\* two stops, the second reached after the first was left: four segments
C18_Witness ==
    /\ SegmentsCalculated
    /\ Len(stops) = 2
    /\ StrictlyChronological
    /\ stops[1].type = "REST"
    /\ stops[2].type = "FUEL"
    /\ Len(segments) = 4
    /\ segments[3].status_changes[1].duration
          = stops[2].planned_arrival - stops[1].planned_departure

\* every log sheet in the table was made by this call
NoLogSheetsBefore == Len(db_log_sheets) = Len(log_sheets)

ChangesOf(sheet) ==
    { i \in 1..Len(db_duty_status_changes) :
        db_duty_status_changes[i].log_sheet = sheet }

\* C19: for a trip that has no log sheets yet, generate_logs returns, the
\* list it returns is not empty and every log sheet in it has at least one
\* duty status change.
C19_LogSheetsReturned ==
    NoLogSheetsBefore =>
        /\ gen_pc # "raised"
        /\ gen_pc = "returned" =>
              /\ log_sheets # << >>
              /\ \A i \in 1..Len(log_sheets) : ChangesOf(log_sheets[i]) # {}

\* a trip without stops: one log sheet returned, with two changes
C19_Witness ==
    /\ gen_pc = "returned"
    /\ NoLogSheetsBefore
    /\ stops = << >>
    /\ Len(log_sheets) = 1
    /\ Cardinality(ChangesOf(log_sheets[1])) = 2

\* the time the j-th status change of a segment starts at
RECURSIVE StartOfChange(_, _)
StartOfChange(segment, j) ==
    IF j = 1 THEN segment.start_time
    ELSE StartOfChange(segment, j - 1)
            + segment.status_changes[j - 1].duration

\* the j-th row written for a sheet
RowOfChange(sheet, j) ==
    CHOOSE i \in ChangesOf(sheet) :
        Cardinality({ k \in ChangesOf(sheet) : k <= i }) = j

\* C20: generate_logs emits one LogSheet per calendar day the trip spans,
\* and every duty status change is on the sheet dated as its segment's
\* start_time and starts at the time of day its segment has it start at.
C20_SheetPerCalendarDay ==
    (gen_pc = "returned" /\ NoLogSheetsBefore) =>
        /\ Len(log_sheets)
              = DateOf(segments[Len(segments)].end_time)
                   - DateOf(trip_created_at) + 1
        /\ \A i \in 1..Len(log_sheets) :
              /\ db_log_sheets[log_sheets[i]].date
                    = DateOf(segments[i].start_time)
              /\ \A j \in 1..Len(segments[i].status_changes) :
                    db_duty_status_changes[RowOfChange(log_sheets[i], j)]
                          .start_time
                       = TimeOf(StartOfChange(segments[i], j))

\* ================================== _generate_eld_logs: rest between days
Max(a, b) == IF a >= b THEN a ELSE b

\* the instant the last Driving or On-Duty activity of a sheet ends at
RECURSIVE LastDutyEnd(_)
LastDutyEnd(activities) ==
    IF activities = <<>> THEN 0
    ELSE LET a == activities[Len(activities)]
             before == LastDutyEnd(SubSeq(activities, 1, Len(activities) - 1))
         IN  IF a.status \in OnDutyStatuses THEN Max(before, To(a))
                                           ELSE before

\* the instants the On-Duty activities of a sheet begin at
OnDutyBegins(sheet) ==
    { From(sheet.activities[j]) :
        j \in { k \in 1..Len(sheet.activities) :
                  sheet.activities[k].status = "ON" } }

\* C22: between the end of the last Driving or On-Duty activity of a
\* simulated day and the start of the first On-Duty activity of the next
\* simulated day lie at least REQUIRED_REST_HOURS hours.
C22_RestBetweenDays ==
    \A i \in 1..(Len(daily_logs) - 1) :
        \A begin \in OnDutyBegins(daily_logs[i + 1]) :
            begin - LastDutyEnd(daily_logs[i].activities)
                >= Hours(REQUIRED_REST_HOURS)


\* ================================================ TripViewSet.plan_route
\* One trip (id 1) and the requests POST /trips/1/plan_route/ made for it,
\* one after the other.  No view, service or setting of the repository
\* opens a transaction, so every ORM write is committed when it is made.

\* the route of the trip is DistanceStep * k miles long, k \in
\* 1..MaxDistanceK, and takes k * RouteDurationStep half hours, k \in
\* 1..MaxRouteDurationK
RouteDurationStep == 5
MaxRouteDurationK == 22
\* timezone.now() is up to MaxPlanDelay hours after the trip's creation,
\* or after the call before; the trip gets up to MaxPlanCalls calls
MaxPlanDelay == 1
MaxPlanCalls == 2

Trip(user) == [user |-> user]

\* the rows a call can leave behind
Stored == << db_rest_stops, db_log_sheets, db_duty_status_changes >>

\* timedelta(hours=h) in whole seconds, halves rounded up
HoursToSeconds(h) == (h.n * SecondsPerHour + h.d \div 2) \div h.d

\* stop_planner.py lines 19-23: the route's distance and duration, the
\* same for every call that gets a route
RouteData ==
    IF plan_pc = "idle"
    THEN /\ total_distance' \in
                { QInt(k * DistanceStep) : k \in 1..MaxDistanceK }
         /\ total_duration' \in
                { Q(k * RouteDurationStep, 2) : k \in 1..MaxRouteDurationK }
    ELSE UNCHANGED << total_distance, total_duration >>

\* views.py lines 42-50: the route is calculated, a StopPlanner is made
CalculateRoute ==
    /\ plan_pc \in {"idle", "done"}
    /\ plan_calls < MaxPlanCalls
    /\ plan_calls' = plan_calls + 1
    /\ stored_before' = Stored
    /\ RouteData
    /\ fuel_stops' = << >>
    /\ rest_stops' = << >>
    /\ current_driving_time' = QInt(0)
    /\ merged_stops' = << >>
    /\ planned_stops' = << >>
    /\ response' = 0
    /\ plan_pc' = "fuel"
    /\ gen_pc' = "idle"
    /\ stops' = << >>
    /\ segments' = << >>
    /\ next_segment' = 0
    /\ current_date' = 0
    /\ log_sheets' = << >>
    /\ UNCHANGED << remerged_stops, now, trip_created_at, dbVars,
                    simulatorVars, rateVars >>

\* views.py lines 47, 69-70: calculate_route raises RoutingError
CalculateRouteRaises ==
    /\ plan_pc \in {"idle", "done"}
    /\ plan_calls < MaxPlanCalls
    /\ plan_calls' = plan_calls + 1
    /\ stored_before' = Stored
    /\ response' = 400
    /\ UNCHANGED << plannerVars, planned_stops, now, generatorVars, dbVars,
                    simulatorVars, rateVars >>

\* stop_planner.py lines 121-136: the RestStop objects of the stops
StopObjects(stop_list, start_time) ==
    [ i \in 1..Len(stop_list) |->
        LET planned_arrival ==
                start_time + HoursToSeconds(stop_list[i].time)
            planned_departure ==
                planned_arrival + HoursToSeconds(stop_list[i].duration)
        IN  RestStop(stop_list[i].type, planned_arrival,
                     planned_departure) ]

\* stop_planner.py lines 38, 114-139: _create_stop_objects
CreateStopObjects ==
    /\ plan_pc = "merged"
    /\ plan_calls > 0
    /\ \E k \in 0..MaxPlanDelay :
          now' = (IF now < trip_created_at THEN trip_created_at ELSE now)
                    + Hours(k)
    /\ planned_stops' = StopObjects(merged_stops, now')
    /\ plan_pc' = "planned"
    /\ UNCHANGED << total_distance, total_duration, fuel_stops, rest_stops,
                    current_driving_time, merged_stops, remerged_stops,
                    plan_calls, stored_before, response, dbVars,
                    generatorVars, simulatorVars, rateVars >>

\* views.py lines 52, 55: RestStop.objects.bulk_create(stops), then a
\* LogGenerator for the trip
BulkCreate ==
    /\ plan_pc = "planned"
    /\ db_rest_stops' = db_rest_stops \o planned_stops
    /\ plan_pc' = "saved"
    /\ gen_pc' = "stops"
    /\ UNCHANGED << total_distance, total_duration, fuel_stops, rest_stops,
                    current_driving_time, merged_stops, remerged_stops,
                    db_log_sheets, db_duty_status_changes, property_read,
                    db_trips, trip_created_at, stops, segments,
                    next_segment, current_date, log_sheets, routeVars,
                    simulatorVars, rateVars >>

Reverse(s) == [ i \in 1..Len(s) |-> s[Len(s) + 1 - i] ]

\* order_by('planned_arrival'): rows of equal arrival stay as they were
RECURSIVE OrderByPlannedArrival(_)
OrderByPlannedArrival(rows) ==
    IF rows = << >> THEN << >>
    ELSE LET last == rows[Len(rows)]
             front == OrderByPlannedArrival(SubSeq(rows, 1, Len(rows) - 1))
             k == Cardinality({ i \in 1..Len(front) :
                    front[i].planned_arrival <= last.planned_arrival })
         IN  SubSeq(front, 1, k) \o <<last>> \o SubSeq(front, k + 1, Len(front))

\* log_generator.py line 38: the trip's RestStop rows by planned_arrival;
\* rows of equal arrival come in the order of their ids or against it
QueryRestStops ==
    /\ gen_pc = "stops"
    /\ stops' \in { OrderByPlannedArrival(db_rest_stops),
                    OrderByPlannedArrival(Reverse(db_rest_stops)) }
    /\ gen_pc' = "segments"
    /\ UNCHANGED << trip_created_at, segments, next_segment, current_date,
                    log_sheets, simulatorVars, routeVars, rateVars,
                    plannerVars, dbVars >>

\* views.py lines 59-67: the plan is serialized, 200
RespondPlan ==
    /\ plan_pc = "saved"
    /\ gen_pc = "returned"
    /\ response' = 200
    /\ plan_pc' = "done"
    /\ UNCHANGED << total_distance, total_duration, fuel_stops, rest_stops,
                    current_driving_time, merged_stops, remerged_stops,
                    now, planned_stops, plan_calls, stored_before, dbVars,
                    generatorVars, simulatorVars, rateVars >>

\* views.py lines 69-70: LogGenerationError, 400
RespondError ==
    /\ plan_pc = "saved"
    /\ gen_pc = "raised"
    /\ response' = 400
    /\ plan_pc' = "done"
    /\ UNCHANGED << total_distance, total_duration, fuel_stops, rest_stops,
                    current_driving_time, merged_stops, remerged_stops,
                    now, planned_stops, plan_calls, stored_before, dbVars,
                    generatorVars, simulatorVars, rateVars >>

\* the trip exists, nothing is planned or logged for it yet
PlanRouteInit ==
    /\ PlannerIdle
    /\ SimulatorIdle
    /\ RouteIdle
    /\ RateIdle
    /\ gen_pc = "idle"
    /\ trip_created_at \in CreatedAts
    /\ stops = << >>
    /\ segments = << >>
    /\ next_segment = 0
    /\ current_date = 0
    /\ log_sheets = << >>
    /\ db_trips = << Trip("alice") >>
    /\ db_rest_stops = << >>
    /\ db_log_sheets = << >>
    /\ db_duty_status_changes = << >>
    /\ property_read = << >>

PlanRouteNext ==
    \/ CalculateRoute
    \/ CalculateRouteRaises
    \/ PlanFuelStops
    \/ AddRestStop
    \/ RestBreak
    \/ RestLoopExit
    \/ MergePlannedStops
    \/ CreateStopObjects
    \/ BulkCreate
    \/ QueryRestStops
    \/ CalculateTripSegments
    \/ CreateLogSheet
    \/ CreateLogSheetRaises
    \/ ReturnLogSheets
    \/ RespondPlan
    \/ RespondError

PlanRouteSpec == PlanRouteInit /\ [][PlanRouteNext]_vars


\* ------------------------------------------------------------ claims
PlanRouteSucceeded == response = 200

RECURSIVE DrivingMinutes(_)
DrivingMinutes(sheets) ==
    IF sheets = << >> THEN 0
    ELSE total_driving_hours(sheets[1]) + DrivingMinutes(Tail(sheets))

\* C21: when plan_route has planned the stops and generated the logs of a
\* route, the Driving durations of the generated log sheets add up to the
\* route's total driving duration (clock times are kept to the minute, so
\* to a minute for each sheet).
C21_DrivingSumsToRoute ==
    PlanRouteSucceeded =>
        Abs(DrivingMinutes(log_sheets) * SecondsPerMinute
                - HoursToSeconds(total_duration))
            <= Len(log_sheets) * SecondsPerMinute


\* C26: the stops plan_stops returns are ordered in time without overlap:
\* no stop's planned_arrival is earlier than the planned_departure of the
\* stop before it.
C26_StopsDoNotOverlap ==
    \A i \in 1..(Len(planned_stops) - 1) :
        planned_stops[i].planned_departure
            <= planned_stops[i + 1].planned_arrival

\* the segments _calculate_trip_segments made for the stay at a stop
StaySegments(stop) ==
    { j \in 1..Len(segments) :
        /\ segments[j].start_time = stop.planned_arrival
        /\ segments[j].end_time = stop.planned_departure
        /\ segments[j].status_changes[1].status # "D" }

ContainsRest(stop) == stop.type \in {"REST", "BOTH"}

\* C27: a planned stop that contains a mandatory rest (type REST, or type
\* BOTH from merging a rest stop with a fuel stop) is logged Off-Duty by
\* _calculate_trip_segments; only a stop of type FUEL is logged On-Duty.
C27_RestLoggedOffDuty ==
    (SegmentsCalculated /\ plan_pc = "saved") =>
        \A i \in 1..Len(stops) :
            \A j \in StaySegments(stops[i]) :
                segments[j].status_changes[1].status =
                    IF ContainsRest(stops[i]) THEN "OFF" ELSE "ON"

\* C25: when plan_route ends in an error, the RestStop, LogSheet and
\* DutyStatusChange rows stored are the rows stored before the call.
C25_NoPartialRecords ==
    response = 400 => Stored = stored_before


\* ========================================== RoutingService._make_request
\* Callers are the threads or worker processes that serve requests; they
\* share the django cache.  A step is one cache operation or one HTTP
\* request of one caller.

\* line 52: 'Limit to 40 requests per hour'
RATE_LIMIT == 40

\* NumCallers callers make up to MaxCallsPerCaller calls each, in the
\* wall-clock hours 0..MaxHour
NumCallers == 2
MaxCallsPerCaller == 2
MaxHour == 1

Callers == 1..NumCallers
ClockHours == 0..MaxHour

\* what the bucket of hour 0 holds after k calls made one after the
\* other, each request answered
CountsAfter(k) == [ h \in ClockHours |-> IF h = 0 THEN k ELSE 0 ]

\* lines 49-50: the bucket of the hour is read, 0 if the key is not set
ReadRequestCount(c) ==
    /\ caller_pc[c] = "idle"
    /\ calls_made[c] < MaxCallsPerCaller
    /\ calls_made' = [calls_made EXCEPT ![c] = @ + 1]
    /\ cache_key' = [cache_key EXCEPT ![c] = clock_hour]
    /\ request_count' = [request_count EXCEPT ![c] = cache[clock_hour]]
    /\ caller_pc' = [caller_pc EXCEPT ![c] = "read"]
    /\ UNCHANGED << cache, clock_hour, issued, simulatorVars, plannerVars,
                    dbVars, generatorVars, routeVars >>

\* lines 52-53: RateLimitError
RaiseRateLimitError(c) ==
    /\ caller_pc[c] = "read"
    /\ request_count[c] >= RATE_LIMIT
    /\ caller_pc' = [caller_pc EXCEPT ![c] = "idle"]
    /\ UNCHANGED << cache, clock_hour, issued, cache_key, request_count,
                    calls_made, simulatorVars, plannerVars, dbVars,
                    generatorVars, routeVars >>

\* lines 55-59: requests.get or requests.post returns a response
SendRequest(c) ==
    /\ caller_pc[c] = "read"
    /\ request_count[c] < RATE_LIMIT
    /\ issued' = [issued EXCEPT ![clock_hour] = @ + 1]
    /\ caller_pc' = [caller_pc EXCEPT ![c] = "sent"]
    /\ UNCHANGED << cache, clock_hour, cache_key, request_count, calls_made,
                    simulatorVars, plannerVars, dbVars, generatorVars,
                    routeVars >>

\* lines 55-59, 67-68: requests raises RequestException, before the request
\* went out (no connection) or after (no answer); RoutingError
RequestRaises(c) ==
    /\ caller_pc[c] = "read"
    /\ request_count[c] < RATE_LIMIT
    /\ \E went_out \in BOOLEAN :
          issued' = [issued EXCEPT
                        ![clock_hour] = IF went_out THEN @ + 1 ELSE @]
    /\ caller_pc' = [caller_pc EXCEPT ![c] = "idle"]
    /\ UNCHANGED << cache, clock_hour, cache_key, request_count, calls_made,
                    simulatorVars, plannerVars, dbVars, generatorVars,
                    routeVars >>

\* lines 62-68: cache.set(cache_key, request_count + 1), then the response
\* is returned or RoutingError raised
SetRequestCount(c) ==
    /\ caller_pc[c] = "sent"
    /\ cache' = [cache EXCEPT ![cache_key[c]] = request_count[c] + 1]
    /\ caller_pc' = [caller_pc EXCEPT ![c] = "idle"]
    /\ UNCHANGED << clock_hour, issued, cache_key, request_count, calls_made,
                    simulatorVars, plannerVars, dbVars, generatorVars,
                    routeVars >>

\* line 49: datetime.now() has moved into the next hour
NextHour ==
    /\ clock_hour < MaxHour
    /\ clock_hour' = clock_hour + 1
    /\ UNCHANGED << cache, issued, caller_pc, cache_key, request_count,
                    calls_made, simulatorVars, plannerVars, dbVars,
                    generatorVars, routeVars >>

\* hour 0, after up to RATE_LIMIT calls made one after the other
RateInit ==
    /\ \E k \in 0..RATE_LIMIT :
          /\ cache = CountsAfter(k)
          /\ issued = CountsAfter(k)
    /\ clock_hour = 0
    /\ caller_pc = [ c \in Callers |-> "idle" ]
    /\ cache_key = [ c \in Callers |-> 0 ]
    /\ request_count = [ c \in Callers |-> 0 ]
    /\ calls_made = [ c \in Callers |-> 0 ]
    /\ SimulatorIdle
    /\ PlannerIdle
    /\ DbEmpty
    /\ GeneratorIdle
    /\ RouteIdle

MakeRequest(c) ==
    \/ ReadRequestCount(c)
    \/ RaiseRateLimitError(c)
    \/ SendRequest(c)
    \/ RequestRaises(c)
    \/ SetRequestCount(c)

RateNext ==
    \/ \E c \in Callers : MakeRequest(c)
    \/ NextHour

RateSpec == RateInit /\ [][RateNext]_vars

\* ------------------------------------------------------------ claims
\* C23: whatever the interleaving of the callers of _make_request, at most
\* 40 HTTP requests are issued within one wall-clock hour, and a caller
\* that found the hour's counter at 40 issues no request and leaves the
\* counter alone.
C23_AtMostFortyPerHour ==
    /\ \A h \in ClockHours : issued[h] <= RATE_LIMIT
    /\ \A c \in Callers :
          caller_pc[c] = "sent" => request_count[c] < RATE_LIMIT


\* ============================================== DutyStatusChangeViewSet
\* Two users with a trip and a log sheet each, and their create, update
\* and partial_update requests.  A row also records the user whose request
\* wrote it last (DutyStatusChange has no such field).

\* the table holds up to MaxStatusRows rows
MaxStatusRows == 2

Users == {"alice", "bob"}

\* two of DutyStatusChange.STATUS_CHOICES
RequestStatuses == {"OFF", "D"}

\* the user of the trip of log sheet number sheet
SheetUser(sheet) == db_trips[db_log_sheets[sheet].trip].user

\* the serializer's log_sheet field takes the id of any LogSheet row
SheetIds == 1..Len(db_log_sheets)

\* the row a request of user writes
WrittenRow(user, sheet, status) ==
    [written_by |-> user]
        @@ DutyStatusChange(sheet, status, Clock(8, 0), Clock(9, 0))

\* views.py lines 78-84: get_queryset, the ids of the rows on log sheets of
\* the user's trips
Queryset(user) ==
    { id \in 1..Len(db_duty_status_changes) :
        SheetUser(db_duty_status_changes[id].log_sheet) = user }

\* views.py lines 86-94: perform_create, the log sheet is the user's
Create(user) ==
    /\ Len(db_duty_status_changes) < MaxStatusRows
    /\ \E sheet \in SheetIds, status \in RequestStatuses :
          /\ SheetUser(sheet) = user
          /\ db_duty_status_changes' =
                Append(db_duty_status_changes,
                       WrittenRow(user, sheet, status))
    /\ response' = 201
    /\ UNCHANGED << db_log_sheets, property_read, db_rest_stops, db_trips,
                    now, planned_stops, plan_calls, stored_before,
                    simulatorVars, plannerVars, generatorVars, rateVars >>

\* views.py lines 90-93: PermissionDenied
CreateDenied(user) ==
    /\ \E sheet \in SheetIds : SheetUser(sheet) # user
    /\ response' = 403
    /\ UNCHANGED << dbVars, now, planned_stops, plan_calls, stored_before,
                    simulatorVars, plannerVars, generatorVars, rateVars >>

\* ModelViewSet.update (perform_update is not overridden): the row, found
\* in the user's queryset, is saved with the request's fields
Update(user) ==
    /\ \E id \in Queryset(user), sheet \in SheetIds,
          status \in RequestStatuses :
          db_duty_status_changes' =
              [db_duty_status_changes EXCEPT
                  ![id] = WrittenRow(user, sheet, status)]
    /\ response' = 200
    /\ UNCHANGED << db_log_sheets, property_read, db_rest_stops, db_trips,
                    now, planned_stops, plan_calls, stored_before,
                    simulatorVars, plannerVars, generatorVars, rateVars >>

\* ModelViewSet.partial_update: only the fields the request names change
PartialUpdate(user) ==
    /\ \E id \in Queryset(user) :
          \/ \E sheet \in SheetIds :
                db_duty_status_changes' =
                    [db_duty_status_changes EXCEPT
                        ![id] = WrittenRow(user, sheet, @.status)]
          \/ \E status \in RequestStatuses :
                db_duty_status_changes' =
                    [db_duty_status_changes EXCEPT
                        ![id] = WrittenRow(user, @.log_sheet, status)]
    /\ response' = 200
    /\ UNCHANGED << db_log_sheets, property_read, db_rest_stops, db_trips,
                    now, planned_stops, plan_calls, stored_before,
                    simulatorVars, plannerVars, generatorVars, rateVars >>

\* get_object: the row is not in the user's queryset, 404
UpdateNotFound(user) ==
    /\ \E id \in 1..Len(db_duty_status_changes) : id \notin Queryset(user)
    /\ response' = 404
    /\ UNCHANGED << dbVars, now, planned_stops, plan_calls, stored_before,
                    simulatorVars, plannerVars, generatorVars, rateVars >>

StatusChangeInit ==
    /\ db_trips = << Trip("alice"), Trip("bob") >>
    /\ db_log_sheets = << LogSheet(1, 0), LogSheet(2, 0) >>
    /\ db_duty_status_changes = << >>
    /\ property_read = << >>
    /\ db_rest_stops = << >>
    /\ SimulatorIdle
    /\ PlannerIdle
    /\ GeneratorIdle
    /\ RouteIdle
    /\ RateIdle

StatusChangeNext ==
    \E user \in Users :
        \/ Create(user)
        \/ CreateDenied(user)
        \/ Update(user)
        \/ PartialUpdate(user)
        \/ UpdateNotFound(user)

StatusChangeSpec == StatusChangeInit /\ [][StatusChangeNext]_vars

\* ------------------------------------------------------------ claims
\* C24: after any create, update and partial_update requests of
\* authenticated users, no duty status change references a log sheet of a
\* trip of another user than the one whose request wrote it.
C24_OwnLogSheetsOnly ==
    \A id \in 1..Len(db_duty_status_changes) :
        SheetUser(db_duty_status_changes[id].log_sheet)
            = db_duty_status_changes[id].written_by

====
